---------------------------- MODULE Spec2Model ----------------------------
(***************************************************************************)
(* Intersection analysis of osrm-backend's extractor/guidance:             *)
(*   IntersectionGenerator  (src/src/extractor/guidance/                   *)
(*                           intersection_generator.cpp)                   *)
(*   ConnectedRoad, IntersectionView (src/src/extractor/guidance/          *)
(*                           intersection.cpp)                             *)
(*                                                                         *)
(* Bearings and the angles of a view are whole degrees.  The code compares *)
(* angles with std::numeric_limits<double>::epsilon(); on whole degrees    *)
(* "x > epsilon" is x >= 1 and "x < epsilon" is x <= 0.  ConnectedRoad::   *)
(* mirror subtracts in double arithmetic next to 0 and 360, where its      *)
(* rounding decides the outcome: the angle of a mirrored road is a double, *)
(* kept as a whole number of degrees and a distance to it in units of      *)
(* 2^-52.                                                                  *)
(*                                                                         *)
(* Edge ids are the positions 1..Len(graph) of the edge array; the edges   *)
(* of one node are contiguous, as in the graph container.                  *)
(***************************************************************************)
EXTENDS Integers, Sequences, FiniteSets, TLC

VARIABLES
    graph,              \* node_based_graph: the edge array, grouped by source
    coordinates,        \* coordinate_extractor + node_info_list, per edge
    restriction_map,    \* restriction_map: no-turn triples and only-turn triples
    barrier_nodes,      \* barrier_nodes
    pc,                 \* position in the operation that is running
    args,               \* arguments of the running operation
    query_node,         \* GetActualNextIntersection: query_node
    query_edge,         \* GetActualNextIntersection: query_edge
    visited_nodes,      \* GetActualNextIntersection: visited_nodes
    intersection,       \* the IntersectionShape that was computed
    normalisation,      \* the normalised intersection and the performed merges
    intersection_view,  \* the IntersectionView that was returned
    road                \* ConnectedRoad that mirror() works on

vars == <<graph, coordinates, restriction_map, barrier_nodes, pc, args,
          query_node, query_edge, visited_nodes, intersection, normalisation,
          intersection_view, road>>

environment == <<graph, coordinates, restriction_map, barrier_nodes>>
walker == <<query_node, query_edge, visited_nodes>>

-----------------------------------------------------------------------------
(* Bounds *)

\* number of nodes of the graphs that are enumerated
NumNodes == 4
\* angles handed to mirror() lie at and next to the multiples of AngleStep
AngleStep == 30
\* roads of an enumerated graph
MaxRoads == 3
\* bearings are the multiples of 360 / NumBearings
NumBearings == 3

Nodes == 0 .. (NumNodes - 1)
\* an enumerated intersection is node 0 with roads to the nodes of Neighbours;
\* FarNode is a node that no road of it leads to
Neighbours == {1, 2}
FarNode == NumNodes - 1
Bearings == {i * (360 \div NumBearings) : i \in 0 .. (NumBearings - 1)}

\* the sentinels are values outside the id ranges; None stands for boost::none
SPECIAL_NODEID == NumNodes
SPECIAL_EDGEID == 0 - 1
None == 0 - 2

-----------------------------------------------------------------------------
(* Sequence helpers *)

Range(s) == {s[i] : i \in DOMAIN s}

MinOf(S) == CHOOSE x \in S : \A y \in S : x <= y

RECURSIVE SetToSortedSeq(_)
SetToSortedSeq(S) ==
    IF S = {} THEN <<>>
    ELSE LET m == MinOf(S) IN <<m>> \o SetToSortedSeq(S \ {m})

\* std::sort with a strict weak ordering, given as the table less[k, j] of
\* the comparator applied to s[k] and s[j]: a sorted rearrangement.
\* The order among equivalent elements is not specified, so every sorted
\* rearrangement is a possible outcome: each is built by taking, again and
\* again, one of the elements that no remaining element is less than.
SortOutcomes(s, less) ==
    LET RECURSIVE Orders(_)
        Orders(I) ==
            IF I = {} THEN {<<>>}
            ELSE UNION {{<<i>> \o t : t \in Orders(I \ {i})} :
                           i \in {j \in I : \A k \in I : ~less[k, j]}}
    IN  {[n \in DOMAIN s |-> s[p[n]]] : p \in Orders(DOMAIN s)}

-----------------------------------------------------------------------------
(* util::bearing and util::guidance helpers *)

\* util::bearing::reverseBearing
reverseBearing(bearing) == IF bearing >= 180 THEN bearing - 180 ELSE bearing + 180

\* util::bearing::angleBetweenBearings: the angle, in [0, 360), between the
\* reverse of entry_bearing and exit_bearing, clockwise; an exit along the
\* entry bearing is 180 (straight), an exit along its reverse is 0 (u-turn)
angleBetweenBearings(entry_bearing, exit_bearing) ==
    (exit_bearing - reverseBearing(entry_bearing) + 360) % 360

\* util::guidance::angularDeviation
angularDeviation(angle, from) ==
    LET deviation == IF angle >= from THEN angle - from ELSE from - angle
    IN  IF 360 - deviation < deviation THEN 360 - deviation ELSE deviation

-----------------------------------------------------------------------------
(* IntersectionView::findClosestTurn and Intersection::findClosestTurn *)

\* std::min_element over the positions from.. of s, smallest being the
\* position of the smallest element so far: a later element replaces it only
\* if it compares less.  less[k, j] is the comparator applied to s[k], s[j].
RECURSIVE min_element_scan(_, _, _, _)
min_element_scan(s, less, smallest, from) ==
    IF from > Len(s) THEN smallest
    ELSE min_element_scan(s, less, IF less[from, smallest] THEN from ELSE smallest,
                          from + 1)

\* std::min_element: the position of the first smallest element, 0 for end()
\* on an empty range
min_element(s, less) == IF s = <<>> THEN 0 ELSE min_element_scan(s, less, 1, 2)

\* a search that compares the plain differences of the angles
findClosestTurnByDifference(roads, angle) ==
    min_element(roads, [k \in DOMAIN roads, j \in DOMAIN roads |->
        (IF roads[k].angle >= angle THEN roads[k].angle - angle ELSE angle - roads[k].angle) <
        (IF roads[j].angle >= angle THEN roads[j].angle - angle ELSE angle - roads[j].angle)])

\* IntersectionView::findClosestTurn and Intersection::findClosestTurn (the
\* two bodies are the same): the position of the road found
findClosestTurn(roads, angle) ==
    min_element(roads, [k \in DOMAIN roads, j \in DOMAIN roads |->
        angularDeviation(roads[k].angle, angle) < angularDeviation(roads[j].angle, angle)])

-----------------------------------------------------------------------------
(* DirectionModifier and ConnectedRoad::mirror *)

UTurn == 0
SharpRight == 1
Right == 2
SlightRight == 3
Straight == 4
SlightLeft == 5
Left == 6
SharpLeft == 7
MaxDirectionModifier == 8

\* mirrored_modifiers[], indexed by the modifier (0-based in the code)
mirrored_modifiers ==
    <<UTurn, SharpLeft, Left, SlightLeft, Straight, SlightRight, Right, SharpRight>>

\* ConnectedRoad::angle is a double, and mirror() subtracts it from 360. The
\* doubles kept here are deg + ulps * 2^-52, deg a whole number of degrees
\* and ulps a small integer (the distance to deg in units of 2^-52).
Double(deg, ulps) == [deg |-> deg, ulps |-> ulps]

\* std::numeric_limits<double>::epsilon(), 2^-52
epsilon == Double(0, 1)

\* the distance, in units of 2^-52, between neighbouring doubles in the
\* binade [2^k, 2^(k+1)) that holds the whole number n >= 1: 2^k
RECURSIVE BinadeUlps(_)
BinadeUlps(n) == IF n < 2 THEN 1 ELSE 2 * BinadeUlps(n \div 2)

\* x < y
DoubleLess(x, y) == x.deg < y.deg \/ (x.deg = y.deg /\ x.ulps < y.ulps)

\* the double nearest to the exact value x >= 0, ties to the even mantissa;
\* below 1 every value kept here is a double
RoundToDouble(x) ==
    LET whole == IF x.ulps < 0 THEN x.deg - 1 ELSE x.deg
        spacing == IF whole < 1 THEN 1 ELSE BinadeUlps(whole)
        below == x.ulps \div spacing
        rest == x.ulps % spacing
        nearest == IF 2 * rest < spacing THEN below
                   ELSE IF 2 * rest > spacing THEN below + 1
                   ELSE IF below % 2 = 0 THEN below ELSE below + 1
    IN  Double(x.deg, nearest * spacing)

\* the double x - y, for x >= y
DoubleMinus(x, y) == RoundToDouble(Double(x.deg - y.deg, x.ulps - y.ulps))

\* fabs(x - y)
fabsDifference(x, y) == IF DoubleLess(x, y) THEN DoubleMinus(y, x) ELSE DoubleMinus(x, y)

\* util::guidance::angularDeviation on doubles, deviation at most 360
angularDeviationOfDoubles(angle, from) ==
    LET deviation == fabsDifference(angle, from)
        other == DoubleMinus(Double(360, 0), deviation)
    IN  IF DoubleLess(other, deviation) THEN other ELSE deviation

\* ConnectedRoad::mirror
mirror(r) ==
    IF DoubleLess(epsilon, angularDeviationOfDoubles(r.angle, Double(0, 0)))
    THEN [r EXCEPT !.angle = DoubleMinus(Double(360, 0), r.angle),
                   !.direction_modifier = mirrored_modifiers[r.direction_modifier + 1]]
    ELSE r


-----------------------------------------------------------------------------
(* util::NodeBasedDynamicGraph, as the spec's section 6 gives its contract *)

EdgeIDs == DOMAIN graph

GetTarget(e) == graph[e].target

GetEdgeData(e) == graph[e].data

\* the edge ids of node n, ascending
GetAdjacentEdgeRange(n) == SetToSortedSeq({e \in EdgeIDs : graph[e].source = n})

GetOutDegree(n) == Cardinality({e \in EdgeIDs : graph[e].source = n})

\* the first edge id of node n (only read for nodes that have edges)
BeginEdges(n) == MinOf({e \in EdgeIDs : graph[e].source = n})

\* the first edge from u to v, SPECIAL_EDGEID when there is none
FindEdge(u, v) ==
    LET found == {e \in EdgeIDs : graph[e].source = u /\ graph[e].target = v}
    IN  IF found = {} THEN SPECIAL_EDGEID ELSE MinOf(found)

\* EdgeData::IsCompatibleTo: the two edges carry the same road metadata
IsCompatibleTo(data, other) == data.cls = other.cls

\* The node based graph holds every road as two directed edges, one per end;
\* the edge against a one-way road is marked reversed.  roads is a sequence of
\* [a, b, dir, cls]: dir "both", "ab" (one-way a -> b) or "ba" (one-way b -> a).
EdgesOfNode(n, roads) ==
    LET own == SetToSortedSeq({i \in DOMAIN roads : roads[i].a = n \/ roads[i].b = n})
    IN  [k \in DOMAIN own |->
            LET r == roads[own[k]] IN
            [source |-> n,
             target |-> IF r.a = n THEN r.b ELSE r.a,
             data   |-> [reversed |-> IF r.a = n THEN r.dir = "ba" ELSE r.dir = "ab",
                         cls      |-> r.cls]]]

RECURSIVE EdgesFrom(_, _)
EdgesFrom(n, roads) ==
    IF n >= NumNodes THEN <<>> ELSE EdgesOfNode(n, roads) \o EdgesFrom(n + 1, roads)

BuildGraph(roads) == EdgesFrom(0, roads)

-----------------------------------------------------------------------------
(* RestrictionMap, as the spec's section 3 gives its contract *)

\* RestrictionMap::CheckIfTurnIsRestricted
CheckIfTurnIsRestricted(from, via, to) == <<from, via, to>> \in restriction_map.no

\* RestrictionMap::CheckForEmanatingIsOnlyTurn: the node an only-restriction
\* of (from, via) names, SPECIAL_NODEID when there is none
CheckForEmanatingIsOnlyTurn(from, via) ==
    LET named == {t \in restriction_map.only : t[1] = from /\ t[2] = via}
    IN  IF named = {} THEN SPECIAL_NODEID ELSE (CHOOSE t \in named : TRUE)[3]

-----------------------------------------------------------------------------
(* CoordinateExtractor and util::coordinate_calculation: per edge, the       *)
(* bearing towards the coordinate close to the turn, the bearing towards    *)
(* the representative coordinate, and the haversine length of the polyline  *)

BearingCloseToTurn(e) == coordinates[e].close
BearingRepresentative(e) == coordinates[e].representative
SegmentLength(e) == coordinates[e].length

-----------------------------------------------------------------------------
(* IntersectionGenerator::ComputeIntersectionShape *)

\* std::find_if: the first of the positions whose element satisfies the
\* predicate (hits), 0 for end()
FindIf(hits) == IF hits = {} THEN 0 ELSE MinOf(hits)

\* extract_coordinate + util::coordinate_calculation::bearing: the bearing of
\* the edge as seen from the centre of the intersection
ShapeBearing(eid, intersection_degree, use_low_precision_angles) ==
    IF use_low_precision_angles \/ intersection_degree <= 2
    THEN BearingCloseToTurn(eid)
    ELSE BearingRepresentative(eid)

\* a loop that measures the road after its coordinates were handed to
\* ExtractRepresentativeCoordinate
ShapeEntriesMeasuredLate(node_at_center_of_intersection, use_low_precision_angles) ==
    LET range == GetAdjacentEdgeRange(node_at_center_of_intersection)
        intersection_degree == GetOutDegree(node_at_center_of_intersection)
    IN  [k \in DOMAIN range |->
            [eid            |-> range[k],
             bearing        |-> ShapeBearing(range[k], intersection_degree,
                                             use_low_precision_angles),
             segment_length |-> IF use_low_precision_angles \/ intersection_degree <= 2
                                THEN SegmentLength(range[k])
                                ELSE 0]]

\* the loop over GetAdjacentEdgeRange that fills the shape
ShapeEntries(node_at_center_of_intersection, use_low_precision_angles) ==
    LET range == GetAdjacentEdgeRange(node_at_center_of_intersection)
        intersection_degree == GetOutDegree(node_at_center_of_intersection)
    IN  [k \in DOMAIN range |->
            [eid            |-> range[k],
             bearing        |-> ShapeBearing(range[k], intersection_degree,
                                             use_low_precision_angles),
             segment_length |-> SegmentLength(range[k])]]

\* a base bearing that does not look for sorting_base
base_bearing_of_first(shape, sorting_base) == reverseBearing(shape[1].bearing)

\* the base_bearing lambda
base_bearing(shape, sorting_base) ==
    LET itr == IF sorting_base = None THEN 0
               ELSE FindIf({k \in DOMAIN shape : GetTarget(shape[k].eid) = sorting_base})
    IN  IF itr # 0 THEN reverseBearing(shape[itr].bearing)
        ELSE reverseBearing(shape[1].bearing)

\* makeCompareShapeDataByBearing(base_bearing)
CompareShapeDataByBearing(base, lhs, rhs) ==
    angleBetweenBearings(base, lhs.bearing) < angleBetweenBearings(base, rhs.bearing)

\* the shapes ComputeIntersectionShape can return
ComputeIntersectionShape(node_at_center_of_intersection, sorting_base, use_low_precision_angles) ==
    LET shape == ShapeEntries(node_at_center_of_intersection, use_low_precision_angles)
    IN  IF shape = <<>> THEN {shape}
        ELSE LET base == base_bearing(shape, sorting_base)
             IN  SortOutcomes(shape,
                              [k \in DOMAIN shape, j \in DOMAIN shape |->
                                  CompareShapeDataByBearing(base, shape[k], shape[j])])

-----------------------------------------------------------------------------
(* IntersectionGenerator::TransformIntersectionShapeIntoView *)

\* GetOnlyAllowedTurnIfExistent that does not check that the node is adjacent
GetOnlyAllowedTurnUnchecked(coming_from_node, node_at_intersection) ==
    LET only_restriction_to_node ==
            CheckForEmanatingIsOnlyTurn(coming_from_node, node_at_intersection)
    IN  IF only_restriction_to_node # SPECIAL_NODEID THEN only_restriction_to_node
        ELSE None

\* GetOnlyAllowedTurnIfExistent: None stands for boost::none
GetOnlyAllowedTurnIfExistent(coming_from_node, node_at_intersection) ==
    LET only_restriction_to_node ==
            CheckForEmanatingIsOnlyTurn(coming_from_node, node_at_intersection)
        range == GetAdjacentEdgeRange(node_at_intersection)
    IN  IF /\ only_restriction_to_node # SPECIAL_NODEID
           /\ \E k \in DOMAIN range : only_restriction_to_node = GetTarget(range[k])
        THEN only_restriction_to_node
        ELSE None

connect_to_previous_node(road_, previous_node) == GetTarget(road_.eid) = previous_node

\* is_restricted that forgets the dedicated destination of an only-turn
is_restricted_without_only(destination, only_valid_turn, previous_node, node_at_intersection) ==
    CheckIfTurnIsRestricted(previous_node, node_at_intersection, destination)

is_restricted(destination, only_valid_turn, previous_node, node_at_intersection) ==
    IF only_valid_turn # None /\ only_valid_turn # destination
    THEN TRUE
    ELSE CheckIfTurnIsRestricted(previous_node, node_at_intersection, destination)

\* is_allowed_turn that turns over barriers
is_allowed_turn_over_barrier(road_, only_valid_turn, is_barrier_node, previous_node, node_at_intersection) ==
    /\ ~GetEdgeData(road_.eid).reversed
    /\ ~is_restricted(GetTarget(road_.eid), only_valid_turn, previous_node,
                      node_at_intersection)

\* is_allowed_turn that lets no road leave a barrier, the u-turn included
is_allowed_turn_closed_barrier(road_, only_valid_turn, is_barrier_node, previous_node, node_at_intersection) ==
    /\ ~GetEdgeData(road_.eid).reversed
    /\ ~is_barrier_node
    /\ ~is_restricted(GetTarget(road_.eid), only_valid_turn, previous_node,
                      node_at_intersection)

is_allowed_turn(road_, only_valid_turn, is_barrier_node, previous_node, node_at_intersection) ==
    LET road_data == GetEdgeData(road_.eid)
        road_destination_node == GetTarget(road_.eid)
    IN  /\ ~road_data.reversed
        /\ (~is_barrier_node \/ road_destination_node = previous_node)
        /\ ~is_restricted(road_destination_node, only_valid_turn, previous_node,
                          node_at_intersection)

\* uturn_bearing that returns the bearing of the u-turn road, not its reverse
uturn_bearing_not_reversed(uturn_edge, previous_node, normalised_intersection, performed_merges) ==
    LET merge_entry == FindIf({k \in DOMAIN performed_merges :
            performed_merges[k][1] = uturn_edge.eid})
    IN  IF merge_entry # 0
        THEN normalised_intersection[
                 FindIf({k \in DOMAIN normalised_intersection :
                         normalised_intersection[k].eid = performed_merges[merge_entry][2]})].bearing
        ELSE normalised_intersection[
                 FindIf({k \in DOMAIN normalised_intersection :
                         connect_to_previous_node(normalised_intersection[k], previous_node)})].bearing

\* uturn_bearing that measures from the u-turn edge of the intersection,
\* merged or not
uturn_bearing_of_discarded(uturn_edge, previous_node, normalised_intersection, performed_merges) ==
    reverseBearing(uturn_edge.bearing)

\* the uturn_bearing lambda; uturn_edge is *uturn_edge_itr
uturn_bearing(uturn_edge, previous_node, normalised_intersection, performed_merges) ==
    LET merge_entry == FindIf({k \in DOMAIN performed_merges :
            performed_merges[k][1] = uturn_edge.eid})
    IN  IF merge_entry # 0
        THEN LET merged_into_id == performed_merges[merge_entry][2]
                 merged_u_turn == FindIf({k \in DOMAIN normalised_intersection :
                         normalised_intersection[k].eid = merged_into_id})
             IN  reverseBearing(normalised_intersection[merged_u_turn].bearing)
        ELSE LET uturn_edge_at_normalised_intersection_itr ==
                     FindIf({k \in DOMAIN normalised_intersection :
                             connect_to_previous_node(normalised_intersection[k], previous_node)})
             IN  reverseBearing(
                     normalised_intersection[uturn_edge_at_normalised_intersection_itr].bearing)

is_bidirectional(entering_via_edge, node_at_intersection) ==
    LET to_node == GetTarget(entering_via_edge)
        reverse_edge == FindEdge(to_node, node_at_intersection)
    IN  ~GetEdgeData(reverse_edge).reversed

bidirectional_edges(node_at_intersection) ==
    Cardinality({eid \in Range(GetAdjacentEdgeRange(node_at_intersection)) :
                    is_bidirectional(eid, node_at_intersection)})

\* allow_uturn_at_dead_end that does not look at the restrictions
allow_uturn_at_dead_end_unrestricted(uturn_edge, only_valid_turn, previous_node, node_at_intersection) ==
    IF GetEdgeData(uturn_edge.eid).reversed THEN FALSE
    ELSE bidirectional_edges(node_at_intersection) <= 1

allow_uturn_at_dead_end(uturn_edge, only_valid_turn, previous_node, node_at_intersection) ==
    LET uturn_data == GetEdgeData(uturn_edge.eid)
    IN  IF uturn_data.reversed THEN FALSE
        ELSE IF is_restricted(previous_node, only_valid_turn, previous_node,
                              node_at_intersection) THEN FALSE
        ELSE bidirectional_edges(node_at_intersection) <= 1

\* the BOOST_ASSERTs on the arguments: the u-turn edge is in the intersection,
\* and the road the angles are measured from is in the normalised intersection
TransformPrecondition(previous_node, normalised_intersection, intersection_, performed_merges) ==
    LET uturn_edge_itr ==
            FindIf({k \in DOMAIN intersection_ :
                    connect_to_previous_node(intersection_[k], previous_node)})
    IN  /\ uturn_edge_itr # 0
        /\ LET merge_entry == FindIf({k \in DOMAIN performed_merges :
                performed_merges[k][1] = intersection_[uturn_edge_itr].eid})
           IN  IF merge_entry # 0
               THEN FindIf({k \in DOMAIN normalised_intersection :
                       normalised_intersection[k].eid = performed_merges[merge_entry][2]}) # 0
               ELSE FindIf({k \in DOMAIN normalised_intersection :
                       connect_to_previous_node(normalised_intersection[k], previous_node)}) # 0

\* a std::transform that leaves out the roads whose edge is reversed
ViewOfRoadsToEnter(bearing_of_uturn, only_valid_turn, previous_node, node_at_intersection, normalised_intersection) ==
    LET is_barrier_node == node_at_intersection \in barrier_nodes
        kept == SelectSeq(normalised_intersection,
                          LAMBDA r : ~GetEdgeData(r.eid).reversed)
    IN  [k \in DOMAIN kept |->
            LET r == kept[k] IN
            [eid            |-> r.eid,
             bearing        |-> r.bearing,
             segment_length |-> r.segment_length,
             entry_allowed  |-> is_allowed_turn(r, only_valid_turn, is_barrier_node,
                                                previous_node, node_at_intersection),
             angle          |-> angleBetweenBearings(bearing_of_uturn, r.bearing)]]

\* the std::transform that builds the view, in the order of the normalised
\* intersection, with the angles measured from bearing_of_uturn
ViewMeasuredFrom(bearing_of_uturn, only_valid_turn, previous_node, node_at_intersection, normalised_intersection) ==
    LET is_barrier_node == node_at_intersection \in barrier_nodes
    IN  [k \in DOMAIN normalised_intersection |->
            LET r == normalised_intersection[k] IN
            [eid            |-> r.eid,
             bearing        |-> r.bearing,
             segment_length |-> r.segment_length,
             entry_allowed  |-> is_allowed_turn(r, only_valid_turn, is_barrier_node,
                                                previous_node, node_at_intersection),
             angle          |-> angleBetweenBearings(bearing_of_uturn, r.bearing)]]

\* the view of the std::transform when the arguments pass the BOOST_ASSERTs
ViewOfShape(only_valid_turn, previous_node, node_at_intersection, normalised_intersection, uturn_edge, performed_merges) ==
    ViewMeasuredFrom(uturn_bearing(uturn_edge, previous_node,
                                   normalised_intersection, performed_merges),
                     only_valid_turn, previous_node, node_at_intersection,
                     normalised_intersection)

\* number of found valid exit roads
valid_count(view) == Cardinality({k \in DOMAIN view : view[k].entry_allowed})

\* the condition without the test of the number of valid exit roads
RedecideUTurnWhenAllowed(view, uturn_edge_at_intersection_view_itr, is_barrier_node) ==
    /\ uturn_edge_at_intersection_view_itr # 0
    /\ \/ /\ view[uturn_edge_at_intersection_view_itr].entry_allowed
          /\ ~is_barrier_node
       \/ valid_count(view) = 0

\* the condition under which the u-turn of the view is decided again
RedecideUTurn(view, uturn_edge_at_intersection_view_itr, is_barrier_node) ==
    /\ uturn_edge_at_intersection_view_itr # 0
    /\ \/ /\ view[uturn_edge_at_intersection_view_itr].entry_allowed
          /\ ~is_barrier_node
          /\ valid_count(view) # 1
       \/ valid_count(view) = 0

\* the view after the dead end rule, before it is sorted, for the only-turn
\* that GetOnlyAllowedTurnIfExistent returned
ViewBeforeSort(only_valid_turn, previous_node, node_at_intersection, normalised_intersection, intersection_, performed_merges) ==
    LET uturn_edge_itr ==
            FindIf({k \in DOMAIN intersection_ :
                    connect_to_previous_node(intersection_[k], previous_node)})
        uturn_edge == intersection_[uturn_edge_itr]
        view == ViewOfShape(only_valid_turn, previous_node, node_at_intersection,
                            normalised_intersection, uturn_edge, performed_merges)
        uturn_edge_at_intersection_view_itr ==
            FindIf({k \in DOMAIN view : connect_to_previous_node(view[k], previous_node)})
        is_barrier_node == node_at_intersection \in barrier_nodes
    IN  IF RedecideUTurn(view, uturn_edge_at_intersection_view_itr, is_barrier_node)
        THEN [view EXCEPT ![uturn_edge_at_intersection_view_itr].entry_allowed =
                  allow_uturn_at_dead_end(uturn_edge, only_valid_turn, previous_node,
                                          node_at_intersection)]
        ELSE view

\* a comparator that orders by descending angle
CompareByAngleDescending(lhs, rhs) == lhs.angle > rhs.angle

\* IntersectionViewData::CompareByAngle
CompareByAngle(lhs, rhs) == lhs.angle < rhs.angle

\* the views the transformation returns when the only-turn lookup gave
\* only_valid_turn: the view, sorted by angle
SortedViews(only_valid_turn, previous_node, entering_via_edge, normalised_intersection, intersection_, performed_merges) ==
    LET view == ViewBeforeSort(only_valid_turn, previous_node,
                               GetTarget(entering_via_edge), normalised_intersection,
                               intersection_, performed_merges)
    IN  SortOutcomes(view, [k \in DOMAIN view, j \in DOMAIN view |->
                               CompareByAngle(view[k], view[j])])

\* the views TransformIntersectionShapeIntoView can return
TransformIntersectionShapeIntoView(previous_node, entering_via_edge, normalised_intersection, intersection_, performed_merges) ==
    SortedViews(GetOnlyAllowedTurnIfExistent(previous_node, GetTarget(entering_via_edge)),
                previous_node, entering_via_edge, normalised_intersection,
                intersection_, performed_merges)

-----------------------------------------------------------------------------
(* TransformIntersectionShapeIntoView on arguments that need not pass the    *)
(* BOOST_ASSERTs. A build that defines NDEBUG compiles the BOOST_ASSERTs out *)
(* and runs the body on every input; where the body then reads through an    *)
(* end() iterator the behaviour is undefined: the read yields whatever lies  *)
(* behind the vector's buffer, or the program crashes                        *)

\* the double that ->bearing yields through an end() iterator: the 8 bytes
\* behind the vector's buffer, which can be any double at all (the bearing of
\* a road, a number that is no bearing, an infinity, a NaN). Its value is not
\* drawn: AnyDouble stands for every double, and so does what the arithmetic
\* of reverseBearing and angleBetweenBearings leaves of it
AnyDouble == "any double"

\* a double that is read as a bearing: a number of degrees that is known, or
\* AnyDouble
DoubleRead(kind, value) == [kind |-> kind, value |-> value]

DoubleKinds == {"degrees", "any"}

\* what ->bearing yields through normalised_intersection.end()
PastTheEndBearing == {DoubleRead("any", AnyDouble)}

\* the values ->eid can yield when it is read through an end() iterator that
\* are the id of no edge of the graph: one id stands for all of them, since
\* the body compares the id with the merged ids and looks up its edge data
StrayEdgeIDs == {Cardinality(EdgeIDs) + 1}

\* what uturn_edge_itr->eid yields when uturn_edge_itr is intersection.end()
PastTheEndEid == {[eid |-> e] : e \in EdgeIDs \cup StrayEdgeIDs}

\* *uturn_edge_itr
uturn_edges(previous_node, intersection_) ==
    LET uturn_edge_itr ==
            FindIf({k \in DOMAIN intersection_ :
                    connect_to_previous_node(intersection_[k], previous_node)})
    IN  IF uturn_edge_itr = 0 THEN PastTheEndEid ELSE {intersection_[uturn_edge_itr]}

\* the position in the normalised intersection of the road whose bearing the
\* uturn_bearing lambda reverses, 0 for end(): merged_u_turn or
\* uturn_edge_at_normalised_intersection_itr
uturn_bearing_itr(uturn_edge, previous_node, normalised_intersection, performed_merges) ==
    LET merge_entry == FindIf({k \in DOMAIN performed_merges :
            performed_merges[k][1] = uturn_edge.eid})
    IN  IF merge_entry # 0
        THEN FindIf({k \in DOMAIN normalised_intersection :
                normalised_intersection[k].eid = performed_merges[merge_entry][2]})
        ELSE FindIf({k \in DOMAIN normalised_intersection :
                connect_to_previous_node(normalised_intersection[k], previous_node)})

\* the bearing the uturn_bearing lambda reverses: merged_u_turn->bearing or
\* uturn_edge_at_normalised_intersection_itr->bearing
uturn_bearing_roads(uturn_edge, previous_node, normalised_intersection, performed_merges) ==
    LET found == uturn_bearing_itr(uturn_edge, previous_node, normalised_intersection,
                                   performed_merges)
    IN  IF found = 0 THEN PastTheEndBearing
        ELSE {DoubleRead("degrees", normalised_intersection[found].bearing)}

\* the std::transform that builds the view, for the double the uturn_bearing
\* lambda read: angles measured from AnyDouble are AnyDouble
ViewMeasuredFromRead(read, only_valid_turn, previous_node, node_at_intersection, normalised_intersection) ==
    IF read.kind = "degrees"
    THEN ViewMeasuredFrom(reverseBearing(read.value), only_valid_turn, previous_node,
                          node_at_intersection, normalised_intersection)
    ELSE LET view == ViewMeasuredFrom(0, only_valid_turn, previous_node,
                                      node_at_intersection, normalised_intersection)
         IN  [k \in DOMAIN view |-> [view[k] EXCEPT !.angle = AnyDouble]]

\* what std::sort with CompareByAngle can make of the view: the ascending
\* orders of known angles; every order of the roads when the angles are
\* AnyDouble, since the order of doubles that are not known rules none out
SortedByAngle(kind, view) ==
    IF kind = "degrees"
    THEN SortOutcomes(view, [k \in DOMAIN view, j \in DOMAIN view |->
                                CompareByAngle(view[k], view[j])])
    ELSE SortOutcomes(view, [k \in DOMAIN view, j \in DOMAIN view |-> FALSE])

\* node_based_graph.GetEdgeData(eid).reversed; for an eid that is the id of no
\* edge the read lies outside the array of edges and yields either value
reversed_read(eid) == IF eid \in EdgeIDs THEN {GetEdgeData(eid).reversed} ELSE BOOLEAN

\* the values allow_uturn_at_dead_end can return for the eid read through
\* uturn_edge_itr
allow_uturn_at_dead_end_read(uturn_edge, only_valid_turn, previous_node, node_at_intersection) ==
    {IF reversed THEN FALSE
     ELSE IF is_restricted(previous_node, only_valid_turn, previous_node,
                           node_at_intersection) THEN FALSE
     ELSE bidirectional_edges(node_at_intersection) <= 1 :
        reversed \in reversed_read(uturn_edge.eid)}

\* the dead end rule and the sort, for one outcome of the reads; kind is the
\* kind of the double the angles were measured from
DecidedViews(view, kind, uturn_edge, only_valid_turn, previous_node, node_at_intersection) ==
    LET uturn_edge_at_intersection_view_itr ==
            FindIf({k \in DOMAIN view : connect_to_previous_node(view[k], previous_node)})
        decided ==
            IF RedecideUTurn(view, uturn_edge_at_intersection_view_itr,
                             node_at_intersection \in barrier_nodes)
            THEN {[view EXCEPT ![uturn_edge_at_intersection_view_itr].entry_allowed = allowed] :
                     allowed \in allow_uturn_at_dead_end_read(uturn_edge, only_valid_turn,
                                                              previous_node,
                                                              node_at_intersection)}
            ELSE {view}
    IN  UNION {SortedByAngle(kind, d) : d \in decided}

\* the views the body returns for one outcome of its reads
ViewsOfReads(uturn_edge, read, previous_node, entering_via_edge, normalised_intersection) ==
    LET node_at_intersection == GetTarget(entering_via_edge)
        only_valid_turn == GetOnlyAllowedTurnIfExistent(previous_node, node_at_intersection)
    IN  DecidedViews(ViewMeasuredFromRead(read, only_valid_turn, previous_node,
                                          node_at_intersection, normalised_intersection),
                     read.kind, uturn_edge, only_valid_turn, previous_node,
                     node_at_intersection)

\* the views the body returns when no BOOST_ASSERT stops it and the
\* uturn_bearing lambda reads a double of this kind
ViewsOfKind(kind, previous_node, entering_via_edge, normalised_intersection, intersection_, performed_merges) ==
    UNION {UNION {ViewsOfReads(uturn_edge, read, previous_node, entering_via_edge,
                               normalised_intersection) :
                     read \in {r \in uturn_bearing_roads(uturn_edge, previous_node,
                                                         normalised_intersection,
                                                         performed_merges) :
                                  r.kind = kind}} :
              uturn_edge \in uturn_edges(previous_node, intersection_)}

\* view is a view the body returns when no BOOST_ASSERT stops it
TransformWithoutAsserts(view, previous_node, entering_via_edge, normalised_intersection, intersection_, performed_merges) ==
    \E kind \in DoubleKinds :
        view \in ViewsOfKind(kind, previous_node, entering_via_edge,
                             normalised_intersection, intersection_, performed_merges)

\* the body reads through an end() iterator: uturn_edge_itr->eid in the lookup
\* of the merges or in allow_uturn_at_dead_end, or the bearing of a road that
\* was not found
ReadsPastTheEnd(previous_node, entering_via_edge, normalised_intersection, intersection_, performed_merges) ==
    LET node_at_intersection == GetTarget(entering_via_edge)
        only_valid_turn == GetOnlyAllowedTurnIfExistent(previous_node, node_at_intersection)
        missing == \A k \in DOMAIN intersection_ :
                       ~connect_to_previous_node(intersection_[k], previous_node)
        view == ViewMeasuredFrom(0, only_valid_turn, previous_node, node_at_intersection,
                                 normalised_intersection)
    IN  \/ missing /\ performed_merges # <<>>
        \/ \E uturn_edge \in uturn_edges(previous_node, intersection_) :
               uturn_bearing_itr(uturn_edge, previous_node, normalised_intersection,
                                 performed_merges) = 0
        \/ /\ missing
           /\ RedecideUTurn(view,
                  FindIf({k \in DOMAIN view : connect_to_previous_node(view[k], previous_node)}),
                  node_at_intersection \in barrier_nodes)

-----------------------------------------------------------------------------
(* IntersectionGenerator::GetConnectedRoads *)

GetConnectedRoads(from_node, via_eid, use_low_precision_angles) ==
    UNION {TransformIntersectionShapeIntoView(from_node, via_eid, shape, shape, <<>>) :
              shape \in ComputeIntersectionShape(GetTarget(via_eid), None,
                                                 use_low_precision_angles)}

-----------------------------------------------------------------------------
(* IntersectionNormalizer, the caller that merges roads: one road of the     *)
(* shape is dropped, the road it was merged into gets a new bearing, and the *)
(* pair (dropped edge, edge merged into) is recorded                         *)

-----------------------------------------------------------------------------
(* IntersectionGenerator::GetActualNextIntersection *)

\* the get_next_edge lambda
get_next_edge_first(from, via) == BeginEdges(GetTarget(via))

get_next_edge(from, via) ==
    LET new_node == GetTarget(via)
        begin_edges_new_node == BeginEdges(new_node)
    IN  IF GetTarget(begin_edges_new_node) = from
        THEN begin_edges_new_node + 1
        ELSE begin_edges_new_node

\* the condition of the while loop
LoopCondition(query_node_, query_edge_, visited) ==
    /\ query_node_ \notin visited
    /\ GetOutDegree(GetTarget(query_edge_)) = 2

\* the break that does not compare the edge data
BreakConditionAtStart(starting_node, query_edge_, next_edge) ==
    GetTarget(next_edge) = starting_node

\* the break that does not look for starting_node
BreakConditionOfData(starting_node, query_edge_, next_edge) ==
    ~IsCompatibleTo(GetEdgeData(query_edge_), GetEdgeData(next_edge))

\* the condition of the break in the loop body
BreakCondition(starting_node, query_edge_, next_edge) ==
    \/ ~IsCompatibleTo(GetEdgeData(query_edge_), GetEdgeData(next_edge))
    \/ GetTarget(next_edge) = starting_node

\* a walker that skips every compatible node of degree two, whatever it has
\* seen before
AdvancesUnguarded(starting_node, query_node_, query_edge_, visited) ==
    /\ GetOutDegree(GetTarget(query_edge_)) = 2
    /\ IsCompatibleTo(GetEdgeData(query_edge_),
                      GetEdgeData(get_next_edge(query_node_, query_edge_)))

\* one pass through the loop: TRUE when the loop is entered and its body runs
\* to the end, moving the walker on to (next_node, next_edge)
Advances(starting_node, query_node_, query_edge_, visited) ==
    /\ LoopCondition(query_node_, query_edge_, visited)
    /\ ~BreakCondition(starting_node, query_edge_,
                       get_next_edge(query_node_, query_edge_))

NoMerges(shape) == [normalised_intersection |-> shape, performed_merges |-> <<>>]

RemoveAt(s, i) == [k \in 1..(Len(s) - 1) |-> IF k < i THEN s[k] ELSE s[k + 1]]

\* road i of the shape merged into road j, which then has bearing b
MergeRoads(shape, i, j, b) ==
    [normalised_intersection |-> RemoveAt([shape EXCEPT ![j].bearing = b], i),
     performed_merges        |-> <<<<shape[i].eid, shape[j].eid>>>>]

\* the merged road keeps its bearing or takes the bearing of the dropped road
MergeOutcomes(shape) ==
    {MergeRoads(shape, p[1], p[2], shape[p[3]].bearing) :
        p \in {q \in (DOMAIN shape) \X (DOMAIN shape) \X (DOMAIN shape) :
                  q[1] # q[2] /\ q[3] \in {q[1], q[2]}}}

-----------------------------------------------------------------------------
(* The inputs that are enumerated *)

Directions == {"both", "ab", "ba"}

\* the intersections: up to MaxRoads roads between the junction, node 0, and
\* its neighbours, with directions drawn from dirs; several roads may lead to
\* the same neighbour
StarRoads(dirs) ==
    UNION {{[k \in 1..n |-> [a |-> 0, b |-> f[k][1], dir |-> f[k][2], cls |-> 1]] :
               f \in {g \in [1..n -> Neighbours \X dirs] :
                         \A k \in 1..(n - 1) : g[k][1] <= g[k + 1][1]}} :
           n \in 1..MaxRoads}

\* one bearing per edge, the same in both precisions; the length tells the
\* edges apart
CoordinatesOf(g, bearing_of) ==
    [e \in DOMAIN g |-> [close |-> bearing_of[e], representative |-> bearing_of[e],
                         length |-> 50 + e]]

\* the edges spread over the compass
SpreadBearings(g) == [e \in DOMAIN g |-> ((e - 1) % NumBearings) * (360 \div NumBearings)]

\* bearings of the edges of the junction drawn freely (the other edges' bearings
\* are not read)
FreeBearings(g) ==
    {[e \in DOMAIN g |-> IF g[e].source = 0 THEN b[e] ELSE 0] :
        b \in [{e \in DOMAIN g : g[e].source = 0} -> Bearings]}

\* the restrictions of the turns from from_node over the junction
Restrictions(from_node) ==
    {[no |-> {<<from_node, 0, d>> : d \in D}, only |-> O] :
        D \in SUBSET Neighbours,
        O \in {{}} \cup {{<<from_node, 0, x>>} : x \in Neighbours \cup {FarNode}}}

NoRestrictions == [no |-> {}, only |-> {}]

Idle ==
    /\ query_node = SPECIAL_NODEID
    /\ query_edge = SPECIAL_EDGEID
    /\ visited_nodes = {}
    /\ intersection = <<>>
    /\ normalisation = NoMerges(<<>>)
    /\ intersection_view = <<>>
    /\ road = None

\* the edges to enter the junction by: of the edges that lead from one
\* neighbour to the junction the first one, since only the source and the
\* target of via_eid are read
EnteringEdges(g) ==
    {e \in DOMAIN g :
        /\ g[e].target = 0
        /\ \A f \in DOMAIN g :
               (g[f].target = 0 /\ g[f].source = g[e].source) => f >= e}

\* an intersection with every combination of restrictions and barrier, its
\* roads spread over the compass
InitEntries ==
    \E roads \in StarRoads(Directions) :
        LET g == BuildGraph(roads) IN
        \E via_eid \in EnteringEdges(g) :
            /\ graph = g
            /\ coordinates = CoordinatesOf(g, SpreadBearings(g))
            /\ restriction_map \in Restrictions(g[via_eid].source)
            /\ barrier_nodes \in {{}, {0}}
            /\ args = [from_node |-> g[via_eid].source, via_eid |-> via_eid]
            /\ pc = "start"
            /\ Idle

\* an intersection of two-way roads with every combination of bearings
InitAngles ==
    \E roads \in StarRoads({"both"}) :
        LET g == BuildGraph(roads) IN
        \E via_eid \in EnteringEdges(g) :
            /\ graph = g
            /\ coordinates \in {CoordinatesOf(g, b) : b \in FreeBearings(g)}
            /\ restriction_map = NoRestrictions
            /\ barrier_nodes = {}
            /\ args = [from_node |-> g[via_eid].source, via_eid |-> via_eid]
            /\ pc = "start"
            /\ Idle

Init == InitEntries \/ InitAngles

\* operator(): GetConnectedRoads in high precision
ConnectedRoads ==
    /\ pc = "start"
    /\ \E shape \in ComputeIntersectionShape(GetTarget(args.via_eid), None, FALSE) :
          /\ intersection' = shape
          /\ normalisation' = NoMerges(shape)
          /\ intersection_view' \in TransformIntersectionShapeIntoView(
                 args.from_node, args.via_eid, shape, shape, <<>>)
    /\ pc' = "done"
    /\ UNCHANGED <<environment, args, walker, road>>

\* TransformIntersectionShapeIntoView on the shape of the junction after one
\* of its roads was merged into another one
ConnectedRoadsMerged ==
    /\ pc = "start"
    /\ \E shape \in ComputeIntersectionShape(GetTarget(args.via_eid), None, FALSE) :
       \E merged \in MergeOutcomes(shape) :
          /\ TransformPrecondition(args.from_node, merged.normalised_intersection,
                                   shape, merged.performed_merges)
          /\ intersection' = shape
          /\ normalisation' = merged
          /\ intersection_view' \in TransformIntersectionShapeIntoView(
                 args.from_node, args.via_eid, merged.normalised_intersection,
                 shape, merged.performed_merges)
    /\ pc' = "done"
    /\ UNCHANGED <<environment, args, walker, road>>

Next == ConnectedRoads

\* GetConnectedRoads on the enumerated intersections
Spec == Init /\ [][Next]_vars

NextMerged == ConnectedRoads \/ ConnectedRoadsMerged

\* TransformIntersectionShapeIntoView with and without merged roads
SpecMerged == Init /\ [][NextMerged]_vars

-----------------------------------------------------------------------------
(* Mirroring a road *)

\* distances to a whole degree, in units of 2^-52
Offsets == {0 - 256, 0, 1, 2, 100, 256}

\* the angles in [0, 360) a road is mirrored at
MirrorAngles ==
    {x \in {Double(i * AngleStep, k) : i \in 0 .. (360 \div AngleStep), k \in Offsets} :
        /\ x.deg >= 0 /\ (x.deg = 0 => x.ulps >= 0)
        /\ DoubleLess(x, Double(360, 0))
        /\ RoundToDouble(x) = x}

ConnectedRoadValues ==
    [angle : MirrorAngles, direction_modifier : 0 .. (MaxDirectionModifier - 1)]

InitMirror ==
    /\ graph = <<>>
    /\ coordinates = <<>>
    /\ restriction_map = NoRestrictions
    /\ barrier_nodes = {}
    /\ query_node = SPECIAL_NODEID
    /\ query_edge = SPECIAL_EDGEID
    /\ visited_nodes = {}
    /\ intersection = <<>>
    /\ normalisation = NoMerges(<<>>)
    /\ intersection_view = <<>>
    /\ road \in ConnectedRoadValues
    /\ args = [road |-> road]
    /\ pc = "mirror"

\* road.mirror(), called twice in a row
Mirror ==
    /\ pc \in {"mirror", "mirrored_once"}
    /\ road' = mirror(road)
    /\ pc' = IF pc = "mirror" THEN "mirrored_once" ELSE "mirrored_twice"
    /\ UNCHANGED <<environment, args, walker, intersection, normalisation,
                   intersection_view>>

NextMirror == Mirror

SpecMirror == InitMirror /\ [][NextMirror]_vars

-----------------------------------------------------------------------------
(* Walking to the next intersection *)

\* roads of an enumerated road network
MaxWalkRoads == 4

\* a two-way road between two different nodes, numbered by its ends
RoadKeys == {a * NumNodes + b : a \in Nodes, b \in Nodes} \cap
            {k \in 0 .. (NumNodes * NumNodes) : k \div NumNodes < k % NumNodes}

RoadOfKey(k) == [a |-> k \div NumNodes, b |-> k % NumNodes, dir |-> "both", cls |-> 1]

\* the lists of n roads, in the order of their numbers, none below lo
RECURSIVE RoadLists(_, _)
RoadLists(n, lo) ==
    IF n = 0 THEN {<<>>}
    ELSE UNION {{<<RoadOfKey(k)>> \o rest : rest \in RoadLists(n - 1, k)} :
                   k \in {x \in RoadKeys : x >= lo}}

\* the road networks: up to MaxWalkRoads roads, several of which may join the
\* same two nodes; at most one road carries other metadata than the rest
WalkRoads ==
    UNION {{roads} \cup {[roads EXCEPT ![i].cls = 2] : i \in DOMAIN roads} :
              roads \in UNION {RoadLists(n, 0) : n \in 1 .. MaxWalkRoads}}

\* the state at the head of the loop, for every network and every edge of it
InitWalk ==
    /\ graph \in {BuildGraph(roads) : roads \in WalkRoads}
    /\ coordinates = CoordinatesOf(graph, SpreadBearings(graph))
    /\ restriction_map = NoRestrictions
    /\ barrier_nodes = {}
    /\ query_edge \in DOMAIN graph
    /\ query_node = graph[query_edge].source
    /\ args = [starting_node |-> query_node, via_edge |-> query_edge]
    /\ visited_nodes = {}
    /\ intersection = <<>>
    /\ normalisation = NoMerges(<<>>)
    /\ intersection_view = <<>>
    /\ road = None
    /\ pc = "walk"

\* a pass through the loop that ends with the walker moved on
WalkAdvance ==
    /\ pc = "walk"
    /\ Advances(args.starting_node, query_node, query_edge, visited_nodes)
    /\ visited_nodes' = visited_nodes \cup {query_node}
    /\ query_node' = GetTarget(query_edge)
    /\ query_edge' = get_next_edge(query_node, query_edge)
    /\ UNCHANGED <<environment, args, pc, intersection, normalisation,
                   intersection_view, road>>

\* the loop is left, by its condition or by the break, and the view of
\* (query_node, query_edge) is returned
WalkReturn ==
    /\ pc = "walk"
    /\ ~Advances(args.starting_node, query_node, query_edge, visited_nodes)
    /\ visited_nodes' = IF LoopCondition(query_node, query_edge, visited_nodes)
                        THEN visited_nodes \cup {query_node}
                        ELSE visited_nodes
    /\ \E shape \in ComputeIntersectionShape(GetTarget(query_edge), None, FALSE) :
           /\ intersection' = shape
           /\ normalisation' = NoMerges(shape)
           /\ intersection_view' \in
                  TransformIntersectionShapeIntoView(query_node, query_edge,
                                                     shape, shape, <<>>)
    /\ pc' = "done"
    /\ UNCHANGED <<environment, args, query_node, query_edge, road>>

NextWalk == WalkAdvance \/ WalkReturn

\* the loop keeps running until it is left
SpecWalk == InitWalk /\ [][NextWalk]_vars /\ WF_vars(NextWalk)

-----------------------------------------------------------------------------
(* Computing the shape of an intersection *)

\* the bearing one step further round the compass
NextBearing(b) == (b + (360 \div NumBearings)) % 360

\* the two bearings of every edge: the close ones as given, the
\* representative ones the same but for the edges in moved
CoordinatesOfBoth(g, bearing_of, moved) ==
    [e \in DOMAIN g |->
        [close |-> bearing_of[e],
         representative |-> IF e \in moved THEN NextBearing(bearing_of[e])
                            ELSE bearing_of[e],
         length |-> 50 + e]]

\* an intersection of two-way roads with every combination of bearings close
\* to the turn; further down the road at most one road bears differently
InitShape ==
    /\ graph \in {BuildGraph(roads) : roads \in StarRoads({"both"})}
    /\ coordinates \in
           {CoordinatesOfBoth(graph, b, moved) :
               b \in FreeBearings(graph),
               moved \in {{}} \cup {{e} : e \in {x \in DOMAIN graph : graph[x].source = 0}}}
    /\ restriction_map = NoRestrictions
    /\ barrier_nodes = {}
    /\ args \in [node_at_center_of_intersection : {0},
                 sorting_base : {None} \cup Neighbours \cup {FarNode},
                 use_low_precision_angles : BOOLEAN]
    /\ pc = "shape"
    /\ Idle

\* ComputeIntersectionShape(node_at_center_of_intersection, sorting_base,
\* use_low_precision_angles)
ComputeShape ==
    /\ pc = "shape"
    /\ intersection' \in ComputeIntersectionShape(args.node_at_center_of_intersection,
                                                  args.sorting_base,
                                                  args.use_low_precision_angles)
    /\ pc' = "done"
    /\ UNCHANGED <<environment, args, walker, normalisation, intersection_view, road>>

NextShape == ComputeShape

SpecShape == InitShape /\ [][NextShape]_vars

-----------------------------------------------------------------------------
(* Searching the closest turn *)

\* the angles of the roads searched and of the queries: the multiples of
\* AngleStep and angles next to 0 and 360
ClosestAngles == {i * AngleStep : i \in 0 .. (359 \div AngleStep)} \cup {1, 5, 359}

\* the roads of a view or an intersection, of which the search reads the angle
RoadsWithAngles ==
    UNION {[1 .. n -> [angle : ClosestAngles]] : n \in 1 .. MaxRoads}

InitClosest ==
    /\ graph = <<>>
    /\ coordinates = <<>>
    /\ restriction_map = NoRestrictions
    /\ barrier_nodes = {}
    /\ query_node = SPECIAL_NODEID
    /\ query_edge = SPECIAL_EDGEID
    /\ visited_nodes = {}
    /\ intersection = <<>>
    /\ normalisation = NoMerges(<<>>)
    /\ intersection_view \in RoadsWithAngles
    /\ args \in [angle : ClosestAngles]
    /\ road = None
    /\ pc = "find"

\* findClosestTurn(angle) on the roads; road is the position it returns
FindClosestTurn ==
    /\ pc = "find"
    /\ road' = findClosestTurn(intersection_view, args.angle)
    /\ pc' = "found"
    /\ UNCHANGED <<environment, args, walker, intersection, normalisation,
                   intersection_view>>

NextClosest == FindClosestTurn

SpecClosest == InitClosest /\ [][NextClosest]_vars

-----------------------------------------------------------------------------
(* TransformIntersectionShapeIntoView called with arguments of any caller:   *)
(* previous_node need not be a neighbour of the junction, and a road may be  *)
(* missing from the intersection or from the normalised intersection. args   *)
(* also tells the build, which no file of the sources fixes: with NDEBUG     *)
(* the BOOST_ASSERTs are compiled out, without it they are in force          *)

\* the vector and the vectors that lack one of its roads
WithOneRoadLess(shape) == {shape} \cup {RemoveAt(shape, i) : i \in DOMAIN shape}

InitTransform ==
    \E roads \in StarRoads({"both", "ba"}) :
        /\ graph = BuildGraph(roads)
        /\ coordinates = CoordinatesOf(graph, SpreadBearings(graph))
        /\ restriction_map = NoRestrictions
        /\ barrier_nodes \in {{}, {0}}
        /\ \E entering_via_edge \in EnteringEdges(graph) :
              args \in [previous_node : {graph[entering_via_edge].source, FarNode},
                        entering_via_edge : {entering_via_edge},
                        NDEBUG : BOOLEAN]
        /\ \E shape \in ComputeIntersectionShape(0, None, FALSE) :
              /\ intersection \in WithOneRoadLess(shape)
              /\ normalisation \in {NoMerges(s) : s \in WithOneRoadLess(shape)}
                                       \cup MergeOutcomes(shape)
        /\ pc = "transform"
        /\ query_node = SPECIAL_NODEID
        /\ query_edge = SPECIAL_EDGEID
        /\ visited_nodes = {}
        /\ intersection_view = <<>>
        /\ road = None

\* a guard that returns to the caller where the assertion fails
ReturnOnFailedAssertion == "done"

\* where a call is after a BOOST_ASSERT that is in force has failed: the
\* program is aborted
FailedAssertion == "assertion_failed"

\* the call. In a build with the BOOST_ASSERTs in force a failed one aborts
\* the program and no view is built; otherwise the body runs: it returns a
\* view, or it crashes where it reads through an end() iterator
TransformShapeIntoView ==
    /\ pc = "transform"
    /\ LET previous_node == args.previous_node
           normalised_intersection == normalisation.normalised_intersection
           performed_merges == normalisation.performed_merges
       IN  IF /\ ~args.NDEBUG
              /\ ~TransformPrecondition(previous_node, normalised_intersection,
                                        intersection, performed_merges)
           THEN /\ pc' = FailedAssertion
                /\ UNCHANGED intersection_view
           ELSE \/ /\ ReadsPastTheEnd(previous_node, args.entering_via_edge,
                                      normalised_intersection, intersection,
                                      performed_merges)
                   /\ pc' = "crashed"
                   /\ UNCHANGED intersection_view
                \/ /\ TransformWithoutAsserts(
                          intersection_view', previous_node, args.entering_via_edge,
                          normalised_intersection, intersection, performed_merges)
                   /\ pc' = "done"
    /\ UNCHANGED <<environment, args, walker, intersection, normalisation, road>>

NextTransform == TransformShapeIntoView

SpecTransform == InitTransform /\ [][NextTransform]_vars

-----------------------------------------------------------------------------
(* Properties of the returned view *)

previous_node_ == args.from_node
node_at_intersection_ == GetTarget(args.via_eid)
ViewRoads == {intersection_view[k] : k \in DOMAIN intersection_view}
AdjacentTargets(n) == {GetTarget(e) : e \in Range(GetAdjacentEdgeRange(n))}

\* "angle < epsilon" and "angle >= 0" on whole degrees
WithinEpsilonOfZero(angle) == angle >= 0 /\ angle < 1

\* C1: every returned view is sorted ascending by angle and its first road
\* has an angle of at least 0 and below epsilon
C1_ViewSortedUTurnLeads ==
    pc = "done" =>
        /\ intersection_view # <<>>
        /\ \A k \in 1..(Len(intersection_view) - 1) :
               intersection_view[k].angle <= intersection_view[k + 1].angle
        /\ WithinEpsilonOfZero(intersection_view[1].angle)

\* a view of three roads at three different angles, the u-turn road in the
\* last slot of the adjacency, at a restricted, barrier-guarded junction
C1_Witness ==
    /\ pc = "done"
    /\ normalisation.performed_merges # <<>>
    /\ Len(intersection_view) = 2
    /\ intersection_view[1].angle < intersection_view[2].angle
    /\ GetTarget(intersection_view[1].eid) # previous_node_
    /\ restriction_map.no # {}
    /\ barrier_nodes # {}

\* C2: a road whose turn (previous_node, node_at_intersection, target) the
\* restriction index reports restricted has entry_allowed = false in the
\* returned view
C2_RestrictedTurnsDenied ==
    pc = "done" =>
        \A r \in ViewRoads :
            CheckIfTurnIsRestricted(previous_node_, node_at_intersection_, GetTarget(r.eid))
                => ~r.entry_allowed

\* the turn back is restricted, nothing else is allowed either (so the dead
\* end rule decided the u-turn again), the u-turn road is no one-way and the
\* junction is a dead end
C2_Witness ==
    /\ pc = "done"
    /\ CheckIfTurnIsRestricted(previous_node_, node_at_intersection_, previous_node_)
    /\ \A r \in ViewRoads : ~r.entry_allowed
    /\ \E r \in ViewRoads : /\ GetTarget(r.eid) = previous_node_
                            /\ ~GetEdgeData(r.eid).reversed
    /\ bidirectional_edges(node_at_intersection_) <= 1
    /\ Len(intersection_view) >= 2

\* C3: at a barrier node every road of the returned view that does not lead
\* to previous_node has entry_allowed = false
C3_BarrierOnlyUTurn ==
    (pc = "done" /\ node_at_intersection_ \in barrier_nodes) =>
        \A r \in ViewRoads : GetTarget(r.eid) # previous_node_ => ~r.entry_allowed

\* a barrier with a road that could be entered were it not for the barrier,
\* and the u-turn allowed by the dead end rule
C3_Witness ==
    /\ pc = "done"
    /\ node_at_intersection_ \in barrier_nodes
    /\ \E r \in ViewRoads :
           /\ GetTarget(r.eid) # previous_node_
           /\ ~GetEdgeData(r.eid).reversed
           /\ ~CheckIfTurnIsRestricted(previous_node_, node_at_intersection_,
                                       GetTarget(r.eid))
           /\ restriction_map.only = {}
    /\ \E r \in ViewRoads : GetTarget(r.eid) = previous_node_ /\ r.entry_allowed

\* the node an only-turn restriction names, when it is adjacent to the junction
ValidOnlyTurn ==
    LET x == CheckForEmanatingIsOnlyTurn(previous_node_, node_at_intersection_)
    IN  IF x # SPECIAL_NODEID /\ x \in AdjacentTargets(node_at_intersection_)
        THEN x ELSE None

\* C4: with an only-turn restriction that names an adjacent node X, every
\* road of the returned view that does not lead to X has entry_allowed =
\* false, the u-turn included
C4_OnlyTurnDeniesOthers ==
    (pc = "done" /\ ValidOnlyTurn # None) =>
        \A r \in ViewRoads : GetTarget(r.eid) # ValidOnlyTurn => ~r.entry_allowed

\* the road to X is the single allowed exit; the u-turn road is no one-way,
\* not restricted, and the junction is a dead end, so only the only-turn
\* keeps the u-turn denied
C4_Witness ==
    /\ pc = "done"
    /\ ValidOnlyTurn # None
    /\ ValidOnlyTurn # previous_node_
    /\ valid_count(intersection_view) = 1
    /\ \E r \in ViewRoads : GetTarget(r.eid) = ValidOnlyTurn /\ r.entry_allowed
    /\ \E r \in ViewRoads : /\ GetTarget(r.eid) = previous_node_
                            /\ ~GetEdgeData(r.eid).reversed
                            /\ ~r.entry_allowed
    /\ restriction_map.no = {}
    /\ bidirectional_edges(node_at_intersection_) <= 1

\* the index names an only-turn node that no edge of the junction leads to
BrokenOnlyTurn ==
    LET x == CheckForEmanatingIsOnlyTurn(previous_node_, node_at_intersection_)
    IN  x # SPECIAL_NODEID /\ x \notin AdjacentTargets(node_at_intersection_)

\* the views that are returned for the same shape, normalised intersection and
\* merges when the index reports no only-turn
ViewsWithoutOnlyTurn ==
    SortedViews(None, previous_node_, args.via_eid, normalisation.normalised_intersection,
                intersection, normalisation.performed_merges)

\* C5: an only-turn restriction that names a node no edge of the junction
\* leads to is discarded: GetOnlyAllowedTurnIfExistent returns none and the
\* view is one that is returned without any only-turn restriction
C5_BrokenOnlyTurnIgnored ==
    BrokenOnlyTurn =>
        /\ GetOnlyAllowedTurnIfExistent(previous_node_, node_at_intersection_) = None
        /\ pc = "done" => intersection_view \in ViewsWithoutOnlyTurn

\* a broken only-turn at a junction where a road is allowed
C5_Witness ==
    /\ pc = "done"
    /\ BrokenOnlyTurn
    /\ Len(intersection_view) >= 2
    /\ \E r \in ViewRoads : GetTarget(r.eid) # previous_node_ /\ r.entry_allowed
-----------------------------------------------------------------------------
(* Properties of the dead end rule *)

\* the turn from previous_node over the junction to destination is
\* restricted, only_turn being the node a valid only-turn names
TurnRestrictedWith(only_turn, destination) ==
    \/ only_turn # None /\ only_turn # destination
    \/ CheckIfTurnIsRestricted(previous_node_, node_at_intersection_, destination)

TurnRestricted(destination) == TurnRestrictedWith(ValidOnlyTurn, destination)

\* entry_allowed of the edge as the transformation first computes it
FirstAllowedWith(only_turn, eid) ==
    /\ ~GetEdgeData(eid).reversed
    /\ node_at_intersection_ \in barrier_nodes => GetTarget(eid) = previous_node_
    /\ ~TurnRestrictedWith(only_turn, GetTarget(eid))

FirstAllowed(eid) == FirstAllowedWith(ValidOnlyTurn, eid)

NormalisedEdges ==
    {normalisation.normalised_intersection[k].eid :
        k \in DOMAIN normalisation.normalised_intersection}

FirstAllowedCount ==
    LET only_turn == ValidOnlyTurn
    IN  Cardinality({k \in DOMAIN normalisation.normalised_intersection :
            FirstAllowedWith(only_turn, normalisation.normalised_intersection[k].eid)})

\* the edge of the u-turn slot: the first road of the view, in the order it is
\* built in, that leads to previous_node; SPECIAL_EDGEID when there is none
UTurnSlot ==
    LET n == normalisation.normalised_intersection
        slot == FindIf({k \in DOMAIN n : GetTarget(n[k].eid) = previous_node_})
    IN  IF slot = 0 THEN SPECIAL_EDGEID ELSE n[slot].eid

\* the u-turn edge: the first road of the intersection that leads to
\* previous_node
UTurnEdge ==
    intersection[FindIf({k \in DOMAIN intersection :
                            GetTarget(intersection[k].eid) = previous_node_})].eid

SlotDecidedAgain ==
    LET slot == UTurnSlot
        count == FirstAllowedCount
    IN  /\ slot # SPECIAL_EDGEID
        /\ \/ /\ node_at_intersection_ \notin barrier_nodes
              /\ count # 1
              /\ FirstAllowed(slot)
           \/ count = 0

DeadEndAllowsUTurn ==
    /\ ~GetEdgeData(UTurnEdge).reversed
    /\ ~TurnRestricted(previous_node_)
    /\ Cardinality({e \in Range(GetAdjacentEdgeRange(node_at_intersection_)) :
           ~GetEdgeData(FindEdge(GetTarget(e), node_at_intersection_)).reversed}) <= 1

\* C13: the u-turn slot is decided again exactly when it exists and either it
\* is allowed, the node is no barrier and the number of allowed roads is not
\* 1, or no road is allowed; it is then allowed iff the u-turn edge is not
\* reversed, the turn back is not restricted and at most one adjacent edge is
\* bidirectional; every other road, and the slot when it is not decided again,
\* keeps the value it was first given
C13_DeadEndRedecision ==
    pc = "done" =>
        LET slot == UTurnSlot
            decided_again == SlotDecidedAgain
            only_turn == ValidOnlyTurn
        IN  \A k \in DOMAIN intersection_view :
                LET r == intersection_view[k] IN
                r.entry_allowed = IF r.eid = slot /\ decided_again
                                  THEN DeadEndAllowsUTurn
                                  ELSE FirstAllowedWith(only_turn, r.eid)

\* the u-turn is the single allowed road of a junction that is no dead end:
\* it is not decided again and stays allowed
C13_Witness ==
    /\ pc = "done"
    /\ UTurnSlot # SPECIAL_EDGEID
    /\ FirstAllowed(UTurnSlot)
    /\ FirstAllowedCount = 1
    /\ node_at_intersection_ \notin barrier_nodes
    /\ ~DeadEndAllowsUTurn
    /\ \E r \in ViewRoads : r.eid = UTurnSlot /\ r.entry_allowed



\* the junction is a genuine dead end
GenuineDeadEnd == bidirectional_edges(node_at_intersection_) <= 1

\* C14 as claimed: in every returned view a road that leads to previous_node
\* has entry_allowed = true only if the junction is a genuine dead end or no
\* other road of the view has entry_allowed = true
C14_UTurnOnlyAsLastResort ==
    pc = "done" =>
        \A k \in DOMAIN intersection_view :
            (GetTarget(intersection_view[k].eid) = previous_node_
             /\ intersection_view[k].entry_allowed)
                => \/ GenuineDeadEnd
                   \/ \A j \in DOMAIN intersection_view \ {k} :
                          ~intersection_view[j].entry_allowed

\* two parallel two-way roads to previous_node and a third road, no
\* restriction, no barrier: the second road to previous_node stays allowed
\* next to the third road, and the junction is no dead end
C14_Witness ==
    /\ pc = "done"
    /\ normalisation.performed_merges = <<>>
    /\ barrier_nodes = {}
    /\ restriction_map = NoRestrictions
    /\ ~GenuineDeadEnd
    /\ \E k \in DOMAIN intersection_view :
           /\ GetTarget(intersection_view[k].eid) = previous_node_
           /\ intersection_view[k].eid # UTurnSlot
           /\ intersection_view[k].entry_allowed
           /\ \E j \in DOMAIN intersection_view :
                  /\ GetTarget(intersection_view[j].eid) # previous_node_
                  /\ intersection_view[j].entry_allowed
    /\ \E k \in DOMAIN intersection_view :
           intersection_view[k].eid = UTurnSlot /\ ~intersection_view[k].entry_allowed


\* C15 as claimed: every road of the returned view whose edge is reversed
\* has entry_allowed = false, whatever the normalised intersection, the
\* intersection and the merges are
C15_ReversedRoadsDenied ==
    pc = "done" =>
        \A r \in ViewRoads : GetEdgeData(r.eid).reversed => ~r.entry_allowed

\* the u-turn edge was merged into a reversed road, which is the u-turn slot
\* of the view; the dead end rule decided the slot again from the data of
\* the u-turn edge and allowed it
C15_Witness ==
    /\ pc = "done"
    /\ normalisation.performed_merges # <<>>
    /\ normalisation.performed_merges[1][1] = UTurnEdge
    /\ normalisation.performed_merges[1][2] = UTurnSlot
    /\ ~GetEdgeData(UTurnEdge).reversed
    /\ GetEdgeData(UTurnSlot).reversed
    /\ SlotDecidedAgain
    /\ \E r \in ViewRoads : r.eid = UTurnSlot /\ r.entry_allowed

\* without merges the claim of C15 holds: the u-turn slot is the u-turn edge
ReversedRoadsDeniedWithoutMerges ==
    (pc = "done" /\ normalisation.performed_merges = <<>>) =>
        \A r \in ViewRoads : GetEdgeData(r.eid).reversed => ~r.entry_allowed

\* C16 as claimed: at a barrier node the u-turn road of the returned view has
\* entry_allowed = true whenever the turn back to previous_node is not
\* restricted and the u-turn edge, the first road of the intersection that
\* leads to previous_node, is not reversed
C16_UTurnEdgeDecidesAtBarrier ==
    (pc = "done" /\ node_at_intersection_ \in barrier_nodes) =>
        LET slot == UTurnSlot IN
        (~GetEdgeData(UTurnEdge).reversed /\ ~TurnRestricted(previous_node_)) =>
            \A r \in ViewRoads : r.eid = slot => r.entry_allowed

\* C16, amended: at a barrier node the u-turn road of the returned view has
\* entry_allowed = true whenever the turn back to previous_node is not
\* restricted and the edge of that road itself is not reversed, however many
\* edges leave the junction and however many of them are bidirectional
C16_BarrierUTurnAllowed ==
    (pc = "done" /\ node_at_intersection_ \in barrier_nodes) =>
        LET slot == UTurnSlot IN
        \A r \in ViewRoads :
            (r.eid = slot
             /\ ~GetEdgeData(r.eid).reversed
             /\ ~TurnRestricted(previous_node_)) => r.entry_allowed

\* a barrier of out-degree three with three bidirectional edges, the u-turn
\* allowed and both other roads denied
C16_Witness ==
    /\ pc = "done"
    /\ node_at_intersection_ \in barrier_nodes
    /\ GetOutDegree(node_at_intersection_) = 3
    /\ bidirectional_edges(node_at_intersection_) = 3
    /\ Len(intersection_view) = 3
    /\ ~TurnRestricted(previous_node_)
    /\ \A r \in ViewRoads : r.entry_allowed <=> r.eid = UTurnSlot
-----------------------------------------------------------------------------
(* Properties of the merged u-turn *)

\* the u-turn edge of the intersection is the first component of the merge
UTurnMerged ==
    /\ normalisation.performed_merges # <<>>
    /\ normalisation.performed_merges[1][1] = UTurnEdge

\* the road the u-turn edge was merged into, in the normalised intersection
MergedInto ==
    LET n == normalisation.normalised_intersection
    IN  n[FindIf({k \in DOMAIN n : n[k].eid = normalisation.performed_merges[1][2]})]

AnglesFromMergedInto ==
    LET m == MergedInto
        from == reverseBearing(m.bearing)
    IN  /\ \A r \in ViewRoads : r.angle = angleBetweenBearings(from, r.bearing)
        /\ \E r \in ViewRoads : r.eid = m.eid /\ r.angle = 0

\* C17 as claimed: when the u-turn edge u was merged into m, all angles are
\* measured from the reverse of m's bearing, m has angle 0 and m is the first
\* road of the returned view
C17_MergedIntoLeads ==
    (pc = "done" /\ UTurnMerged) =>
        /\ AnglesFromMergedInto
        /\ intersection_view[1].eid = MergedInto.eid

\* C17: when the u-turn edge u was merged into m, all angles are measured
\* from the reverse of m's bearing, whatever the bearing of u was; m has angle
\* 0, the first road of the returned view has angle 0, and it is m when no
\* other road has the bearing of m
C17_MergedIntoMeasuresAngles ==
    (pc = "done" /\ UTurnMerged) =>
        /\ AnglesFromMergedInto
        /\ intersection_view[1].angle = 0
        /\ LET m == MergedInto
           IN  (\A r \in ViewRoads : r.eid # m.eid => r.bearing # m.bearing)
                   => intersection_view[1].eid = m.eid

\* the u-turn edge was merged into a road of another bearing that kept its
\* bearing, and that road leads a view of two roads
C17_Witness ==
    /\ pc = "done"
    /\ UTurnMerged
    /\ \E k \in DOMAIN intersection :
           /\ intersection[k].eid = UTurnEdge
           /\ intersection[k].bearing # MergedInto.bearing
    /\ Len(intersection_view) = 2
    /\ intersection_view[1].eid = MergedInto.eid
    /\ intersection_view[2].angle > 0
-----------------------------------------------------------------------------
(* Properties of the order of the view *)

\* the position of the edge in the normalised intersection
PositionInNormalised(eid) ==
    LET n == normalisation.normalised_intersection
    IN  FindIf({k \in DOMAIN n : n[k].eid = eid})

\* C18 as claimed: two roads of equal angle appear in the returned view in
\* the order they had in the normalised intersection
C18_SortIsStable ==
    pc = "done" =>
        \A i, j \in DOMAIN intersection_view :
            (i < j /\ intersection_view[i].angle = intersection_view[j].angle)
                => PositionInNormalised(intersection_view[i].eid)
                       < PositionInNormalised(intersection_view[j].eid)

\* C18: the returned view holds the roads of the normalised intersection,
\* each once, in ascending order of angle: of two roads of different angles
\* the one of the smaller angle comes first, and roads of equal angle come in
\* either order
C18_SortedByAngleOnly ==
    pc = "done" =>
        /\ Len(intersection_view) = Len(normalisation.normalised_intersection)
        /\ {r.eid : r \in ViewRoads} = NormalisedEdges
        /\ \A i, j \in DOMAIN intersection_view :
               intersection_view[i].angle < intersection_view[j].angle => i < j

\* two roads of equal angle were returned in the reverse of the order they
\* had in the normalised intersection, behind a road of a smaller angle
C18_Witness ==
    /\ pc = "done"
    /\ Len(intersection_view) = 3
    /\ intersection_view[1].angle < intersection_view[2].angle
    /\ intersection_view[2].angle = intersection_view[3].angle
    /\ PositionInNormalised(intersection_view[3].eid)
           < PositionInNormalised(intersection_view[2].eid)
-----------------------------------------------------------------------------
(* The roads of the view *)

\* the edge, the bearing and the length of a road
ShapeDataOf(r) == <<r.eid, r.bearing, r.segment_length>>

\* how often the data d appears in the vector of roads
Occurrences(roads, d) == Cardinality({k \in DOMAIN roads : ShapeDataOf(roads[k]) = d})

\* C21: the returned view is a permutation of the normalised intersection:
\* it has as many roads, every road of the normalised intersection appears
\* in it exactly once with its edge, bearing and segment length, and it has
\* no other road
C21_ViewIsPermutation ==
    pc = "done" =>
        LET n == normalisation.normalised_intersection
        IN  /\ Len(intersection_view) = Len(n)
            /\ \A k \in DOMAIN n :
                   Occurrences(intersection_view, ShapeDataOf(n[k])) = 1
            /\ \A j \in DOMAIN intersection_view :
                   Occurrences(n, ShapeDataOf(intersection_view[j])) = 1

\* a view of three roads at a barrier with a restriction: a one-way road is
\* denied, the dead end rule decided the u-turn again, and the sort moved the
\* first road of the normalised intersection away from the first slot
C21_Witness ==
    /\ pc = "done"
    /\ Len(intersection_view) = 3
    /\ intersection_view[1].eid # normalisation.normalised_intersection[1].eid
    /\ node_at_intersection_ \in barrier_nodes
    /\ restriction_map.no # {}
    /\ \E r \in ViewRoads : GetEdgeData(r.eid).reversed
    /\ SlotDecidedAgain
-----------------------------------------------------------------------------
(* Properties of mirror *)

\* C10: mirror is an involution: for every road, with any angle in [0, 360)
\* and any direction modifier, applying mirror twice restores the original
\* angle and the original direction modifier
C10_MirrorInvolution ==
    pc = "mirrored_twice" =>
        /\ road.angle = args.road.angle
        /\ road.direction_modifier = args.road.direction_modifier

\* a road at 2 * 2^-52 degrees, to the right: the first mirror() rounds its
\* angle to 360 and turns it to the left, the second leaves it there
C10_Witness ==
    /\ pc = "mirrored_twice"
    /\ args.road = [angle |-> Double(0, 2), direction_modifier |-> Right]
    /\ road = [angle |-> Double(360, 0), direction_modifier |-> Left]

-----------------------------------------------------------------------------
(* Properties of GetActualNextIntersection *)

\* C6: GetActualNextIntersection terminates on every graph and every
\* (starting_node, via_edge), also where the nodes of degree two form a cycle
\* or a loop of two nodes: the loop is left after finitely many advances,
\* because a query node is never processed twice.  Every pass through the
\* loop either returns or advances from a query node that was not processed
\* before and is processed now, so there are at most NumNodes advances.
C6_WalkTerminates ==
    [][(pc = "walk" /\ pc' = "walk") =>
           /\ query_node \notin visited_nodes
           /\ visited_nodes' = visited_nodes \cup {query_node}
           /\ visited_nodes' \subseteq Nodes]_vars

\* the walk went round a cycle of four nodes and stopped before the edge that
\* closes it
C6_Witness ==
    /\ pc = "done"
    /\ Cardinality(visited_nodes) = 3
    /\ GetOutDegree(GetTarget(query_edge)) = 2
    /\ GetTarget(get_next_edge(query_node, query_edge)) = args.starting_node

\* the paths that begin with the edges of ch and go on over edges that leave
\* the node the edge before them leads to
RECURSIVE PathsFrom(_)
PathsFrom(ch) ==
    {ch} \cup
    (IF Len(ch) >= NumNodes - 1 THEN {}
     ELSE UNION {PathsFrom(Append(ch, e)) :
                    e \in {x \in EdgeIDs : graph[x].source = GetTarget(ch[Len(ch)])}})

\* ch is a simple chain starting_node -> n1 -> ... -> nk -> d, k >= 1, of
\* compatible edges over nodes of degree two, to a node d of another degree
IsChain(ch, starting_node, via_edge) ==
    LET n == Len(ch)
        node(i) == IF i = 0 THEN starting_node ELSE GetTarget(ch[i])
    IN  /\ n >= 2
        /\ ch[1] = via_edge
        /\ graph[via_edge].source = starting_node
        /\ \A i \in 1 .. (n - 1) :
               /\ graph[ch[i + 1]].source = GetTarget(ch[i])
               /\ GetOutDegree(GetTarget(ch[i])) = 2
               /\ IsCompatibleTo(GetEdgeData(ch[i]), GetEdgeData(ch[i + 1]))
        /\ GetOutDegree(GetTarget(ch[n])) # 2
        /\ \A i \in 0 .. n : \A j \in 0 .. n : i # j => node(i) # node(j)

ChainsOfCall ==
    {ch \in PathsFrom(<<args.via_edge>>) :
        IsChain(ch, args.starting_node, args.via_edge)}

\* C7: for a simple chain starting_node -> n1 -> ... -> nk -> d of compatible
\* edges, every n_i of out-degree 2 and d of another out-degree,
\* GetActualNextIntersection(starting_node, starting_node -> n1) reports
\* resulting_from_node = nk and the edge nk -> d, and returns the view
\* GetConnectedRoads(nk, nk -> d)
C7_ChainResolvesToJunction ==
    pc = "done" =>
        \A ch \in ChainsOfCall :
            LET last == ch[Len(ch)] IN
            /\ query_node = graph[last].source
            /\ query_edge = last
            /\ intersection_view \in GetConnectedRoads(graph[last].source, last, FALSE)

\* a chain over two nodes of degree two was walked to its end
C7_Witness ==
    /\ pc = "done"
    /\ \E ch \in ChainsOfCall : Len(ch) = 3 /\ query_edge = ch[3]
    /\ visited_nodes = {args.starting_node, GetTarget(args.via_edge)}

-----------------------------------------------------------------------------
(* Properties of the continuation edge *)

\* the edge get_next_edge chooses in the pass through the loop that begins
ChosenEdge == get_next_edge(query_node, query_edge)

InLoop == pc = "walk" /\ LoopCondition(query_node, query_edge, visited_nodes)

\* both edges of the node ahead lead to the query node
ParallelEdgesAhead ==
    \A e \in Range(GetAdjacentEdgeRange(GetTarget(query_edge))) :
        GetTarget(e) = query_node

\* C19 as claimed: in every pass through the loop the chosen continuation
\* edge leaves the node ahead and does not lead back to the query node, and
\* the walker advances only if the edge data are compatible
C19_ContinuationNeverLeadsBack ==
    [][InLoop =>
          /\ graph[ChosenEdge].source = GetTarget(query_edge)
          /\ GetTarget(ChosenEdge) # query_node
          /\ pc' = "walk" => IsCompatibleTo(GetEdgeData(query_edge),
                                            GetEdgeData(ChosenEdge))]_vars

\* C19: in every pass through the loop the chosen continuation edge leaves
\* the node ahead; it does not lead back to the query node unless both edges
\* of the node ahead do, and then the query node is starting_node and the
\* walk stops; the walker advances only along the chosen edge, only if the
\* edge data are compatible, and never back to the query node
C19_ContinuationLeadsOn ==
    [][InLoop =>
          /\ graph[ChosenEdge].source = GetTarget(query_edge)
          /\ GetTarget(ChosenEdge) = query_node
                 => /\ ParallelEdgesAhead
                    /\ query_node = args.starting_node
                    /\ pc' = "done"
          /\ pc' = "walk"
                 => /\ query_edge' = ChosenEdge
                    /\ GetTarget(ChosenEdge) # query_node
                    /\ IsCompatibleTo(GetEdgeData(query_edge),
                                      GetEdgeData(ChosenEdge))]_vars

\* the walk stopped at its start, before a node whose two edges both lead
\* back to starting_node over compatible roads
C19_Witness ==
    /\ pc = "done"
    /\ visited_nodes = {args.starting_node}
    /\ query_edge = args.via_edge
    /\ GetOutDegree(GetTarget(query_edge)) = 2
    /\ ParallelEdgesAhead
    /\ GetTarget(ChosenEdge) = query_node
    /\ IsCompatibleTo(GetEdgeData(query_edge), GetEdgeData(ChosenEdge))

\* C20: the walker never advances across a continuation edge that leads to
\* starting_node: when the chosen edge leads to starting_node the walk stops
\* with (query_node, query_edge) as they are, and, before and after every
\* advance, the query edge does not lead to starting_node
C20_NeverAdvancesToStart ==
    [][(pc = "walk") =>
          /\ GetTarget(query_edge) # args.starting_node
          /\ GetTarget(query_edge') # args.starting_node
          /\ (InLoop /\ GetTarget(ChosenEdge) = args.starting_node)
                 => /\ pc' = "done"
                    /\ query_node' = query_node
                    /\ query_edge' = query_edge]_vars

\* the walk advanced once on a cycle of three nodes and stopped before the
\* compatible edge that leads back to starting_node
C20_Witness ==
    /\ pc = "done"
    /\ query_node # args.starting_node
    /\ visited_nodes = {args.starting_node, query_node}
    /\ GetOutDegree(GetTarget(query_edge)) = 2
    /\ GetTarget(query_edge) \notin visited_nodes
    /\ GetTarget(ChosenEdge) = args.starting_node
    /\ IsCompatibleTo(GetEdgeData(query_edge), GetEdgeData(ChosenEdge))
-----------------------------------------------------------------------------
(* Properties of ComputeIntersectionShape *)

\* the positions of the returned shape whose edge leads to sorting_base
BaseEntries == {k \in DOMAIN intersection : GetTarget(intersection[k].eid) = args.sorting_base}

ExplicitBaseFound ==
    /\ pc = "done"
    /\ intersection # <<>>
    /\ args.sorting_base # None
    /\ BaseEntries # {}

\* C8 as claimed: for every non-empty shape returned with an explicit
\* sorting_base, if some entry's edge has target sorting_base then an entry
\* targeting sorting_base is the first element of the returned shape
C8_BaseEntryFirst == ExplicitBaseFound => 1 \in BaseEntries

\* the bearing of the first entry, in the order of the edges, that leads to
\* sorting_base
BearingOfBaseEntry ==
    LET shape == ShapeEntries(args.node_at_center_of_intersection,
                              args.use_low_precision_angles)
    IN  shape[FindIf({k \in DOMAIN shape : GetTarget(shape[k].eid) = args.sorting_base})].bearing

\* C8, amended: for every non-empty shape returned with an explicit
\* sorting_base, if some entry's edge has target sorting_base then the first
\* element has the bearing of the first such entry (its bearing relative to
\* the base is 0), and it targets sorting_base whenever no entry with another
\* target has that bearing
C8_BaseBearingFirst ==
    ExplicitBaseFound =>
        /\ intersection[1].bearing = BearingOfBaseEntry
        /\ angleBetweenBearings(reverseBearing(BearingOfBaseEntry),
                                intersection[1].bearing) = 0
        /\ (\A k \in DOMAIN intersection :
                intersection[k].bearing = BearingOfBaseEntry => k \in BaseEntries)
           => 1 \in BaseEntries

\* three roads of three bearings, sorted from a base that is not the first
\* edge's target
C8_Witness ==
    /\ ExplicitBaseFound
    /\ Len(intersection) = 3
    /\ 1 \in BaseEntries
    /\ intersection[1].eid # BeginEdges(args.node_at_center_of_intersection)
    /\ intersection[1].bearing # intersection[2].bearing
    /\ intersection[2].bearing # intersection[3].bearing
    /\ intersection[1].bearing # intersection[3].bearing

\* the (edge, segment_length) pairs of a shape
EdgeLengths(shape) == {<<shape[k].eid, shape[k].segment_length>> : k \in DOMAIN shape}

\* the shapes the call returns in the other precision
OtherPrecisionShapes ==
    ComputeIntersectionShape(args.node_at_center_of_intersection, None,
                             ~args.use_low_precision_angles)

\* C9: for every junction node, ComputeIntersectionShape in low precision and
\* with no sorting base returns the same set of (edge, segment_length) pairs
\* as in high precision; the two results differ at most in bearings and order
C9_PrecisionKeepsEdgeLengths ==
    (pc = "done" /\ args.sorting_base = None) =>
        \A other \in OtherPrecisionShapes :
            /\ EdgeLengths(intersection) = EdgeLengths(other)
            /\ Len(intersection) = Len(other)

\* three roads whose order and bearings differ between the two precisions
C9_Witness ==
    /\ pc = "done"
    /\ args.sorting_base = None
    /\ args.use_low_precision_angles
    /\ Len(intersection) = 3
    /\ \A other \in OtherPrecisionShapes :
           /\ \E k \in DOMAIN other : other[k].bearing # intersection[k].bearing
           /\ \E k \in DOMAIN other : other[k].eid # intersection[k].eid

-----------------------------------------------------------------------------
(* Properties of findClosestTurn *)

\* min(|a - angle|, 360 - |a - angle|)
DeviationFrom(a, angle) ==
    LET d == IF a >= angle THEN a - angle ELSE angle - a
    IN  IF d <= 360 - d THEN d ELSE 360 - d

\* C11: findClosestTurn(angle) on a non-empty view or intersection returns the
\* first entry, in sequence order, whose angular deviation
\* min(|a - angle|, 360 - |a - angle|) from the query angle is minimal over
\* all entries, so wrap-around is respected
C11_ClosestTurnFirstMinimum ==
    pc = "found" =>
        /\ road \in DOMAIN intersection_view
        /\ \A k \in DOMAIN intersection_view :
               DeviationFrom(intersection_view[road].angle, args.angle) <=
               DeviationFrom(intersection_view[k].angle, args.angle)
        /\ \A k \in 1 .. (road - 1) :
               DeviationFrom(intersection_view[road].angle, args.angle) <
               DeviationFrom(intersection_view[k].angle, args.angle)

\* for query 1 a road at 359 beats the road at 5 before it, and the first of
\* two roads at 359 is returned
C11_Witness ==
    /\ pc = "found"
    /\ args.angle = 1
    /\ intersection_view = <<[angle |-> 5], [angle |-> 359], [angle |-> 359]>>
    /\ road = 2

-----------------------------------------------------------------------------
(* The missing u-turn edge *)

MissingUTurnEdge ==
    \A k \in DOMAIN intersection :
        ~connect_to_previous_node(intersection[k], args.previous_node)

\* the call reads through no end() iterator
NoUndefinedRead ==
    ~ReadsPastTheEnd(args.previous_node, args.entering_via_edge,
                     normalisation.normalised_intersection, intersection,
                     normalisation.performed_merges)

MissingUTurnReturned ==
    /\ pc = "done"
    /\ args.NDEBUG
    /\ MissingUTurnEdge
    /\ NoUndefinedRead
    /\ Len(intersection_view) >= 2

\* a call whose arguments pass the BOOST_ASSERTs returns, in either build, a
\* view of the roads of the normalised intersection that
\* TransformIntersectionShapeIntoView gives, and reads through no end()
\* iterator
FoundUTurnReturns ==
    (pc # "transform"
     /\ TransformPrecondition(args.previous_node, normalisation.normalised_intersection,
                              intersection, normalisation.performed_merges)) =>
        /\ pc = "done"
        /\ NoUndefinedRead
        /\ intersection_view \in TransformIntersectionShapeIntoView(
               args.previous_node, args.entering_via_edge,
               normalisation.normalised_intersection, intersection,
               normalisation.performed_merges)

=============================================================================
